---- MODULE Spec2Model ----
(***************************************************************************)
(* Unified Package Manager: the multi-source search aggregation            *)
(* (SearchWorker, the three backends' search_packages), the rate limiters  *)
(* (RateLimiter, AdaptiveRateLimiter) and the persistence contracts        *)
(* (DatabaseManager: installed_apps soft delete, user_prefs whitelist).    *)
(***************************************************************************)
EXTENDS Integers, Sequences, FiniteSets, TLC

\* ---------------------------------------------------------------- constants
\* SearchWorker class attributes (main.py:32-33)
MAX_TOTAL_RESULTS == 450
MAX_PER_SOURCE == 150
\* _api_rate_limiters['snap'] (rate_limiter.py:164)
SNAP_MAX_REQUESTS == 20
SNAP_TIME_WINDOW == 60
\* search_packages(self, query, limit=100) (snap_backend.py:62)
DEFAULT_LIMIT == 100
\* AdaptiveRateLimiter(initial_max_requests=100, ...) (rate_limiter.py:222)
DEFAULT_INITIAL_MAX == 100
\* self.sample_size = 20 (rate_limiter.py:243)
DEFAULT_SAMPLE_SIZE == 20
\* AdaptiveRateLimiter(..., time_window=60) (rate_limiter.py:222)
DEFAULT_TIME_WINDOW == 60
\* limiter.sample_size = 10 (tests/test_rate_limiter.py:162)
TEST_SAMPLE_SIZE == 10

\* ------------------------------------------------------------------- bounds
MaxTime == 2          \* the clock runs over 0..MaxTime
MaxSearchTime == 1    \* ... and over 0..MaxSearchTime while searches are explored
MaxSearches == 1      \* search operations (UI searches and direct backend calls) per run
MaxQueryLen == 1      \* longest text typed into the search box
MaxExtra == 50        \* how far past a cap an external result list may run
NumThreads == 2       \* threads sharing one RateLimiter
MaxRequests == 2      \* largest max_requests of the shared RateLimiter
MaxWindow == 2        \* largest time_window of the shared RateLimiter
MaxInitial == 12      \* initial_max_requests ranges over 1..MaxInitial (and the default)
MaxSampleSize == 3    \* sample_size ranges over 1..MaxSampleSize (and the default)
MaxCallInitial == 3   \* initial_max_requests of a limiter used through the decorator
MaxCallSample == 1    \* sample_size of a limiter used through the decorator
MaxPathLen == 2       \* components of the path handed to export_logs
MaxBatch == 2         \* keys in the mapping handed to update_preferences
MaxAdmitted == 6      \* admissions followed at one instant of an adaptive limiter

Min(a, b) == IF a < b THEN a ELSE b
Max(a, b) == IF a > b THEN a ELSE b

VARIABLES
    now,            \* time.time()
    \* one RateLimiter instance (rate_limiter.py:29-32)
    max_requests, time_window, requests,
    \* SearchWorker (main.py:35-38) and its run() frame
    backends, query, results, idx, pc,
    returned,       \* what each backend's search_packages handed back in this run
    lastSearch,     \* the most recent backend search_packages call and its outcome
    warning,        \* QMessageBox.warning shown by the last UnifiedPackageManager.search_packages
    searches,       \* number of search operations started
    \* DatabaseManager's tables (database.py:60-131)
    installed_apps, \* rows of installed_apps, in insertion (id) order
    user_prefs,     \* rows of user_prefs
    tables,         \* the tables that exist
    addResult,      \* the most recent add_installed_app call and what it returned
    lastRemoved,    \* the most recent remove_installed_app call
    cycle,          \* per package: how far the last calls spell add, remove, add
    prefCall,       \* the most recent update_preference call and how it ended
    getCall,        \* the get_preferences call in progress, or the last one
    \* threads calling RateLimiter.is_allowed (rate_limiter.py:34-57)
    lock,           \* self._lock: 0 when free, else the thread inside
    tpc,            \* each thread's position in is_allowed
    tnow,           \* each thread's local `now`
    admittedAt,     \* per instant: how many calls were admitted with that timestamp
    \* AdaptiveRateLimiter (rate_limiter.py:230-243); the RateLimiter above is
    \* the object its _limiter attribute was last assigned
    adaptive,
    lastRecord,     \* the most recent record_success / record_error call
    \* threads calling a function wrapped by adaptive_rate_limit (rate_limiter.py:309-324)
    inner,          \* what the attribute self._limiter refers to
    alock,          \* AdaptiveRateLimiter._lock: 0 when free, else the thread inside
    held,           \* each thread's reference to the RateLimiter it loaded
    retired,        \* replaced RateLimiter objects some thread still refers to
    apc,            \* each thread's position in the wrapper
    call,           \* each thread's current (or last) call through the wrapper
    \* a function wrapped by rate_limit(key, wait=False) (rate_limiter.py:186-204)
    wrapped,        \* its most recent call
    \* DatabaseManager.export_logs (database.py:289-316)
    exportCall,     \* its most recent call
    \* RateLimiter.is_allowed(key) and get_wait_time(key) called directly
    \* (rate_limiter.py:34-57, 76-95)
    keyCall,        \* the most recent is_allowed(key) call and its answer
    admittedKey,    \* per key: the timestamps of the calls admitted under it
    waitCall,       \* the most recent get_wait_time call and its answer
    \* threads calling RateLimiter.wait_if_needed (rate_limiter.py:59-74)
    waiters,        \* each thread's position in wait_if_needed
    started,        \* flips with every wait_if_needed call that begins
    polled,         \* flips with every is_allowed call a waiting thread makes
    \* DatabaseManager.update_preferences (database.py:242-245)
    batchCall       \* its most recent call

searchVars == <<backends, query, results, idx, pc, returned, lastSearch, warning, searches>>
limiterVars == <<max_requests, time_window, requests>>
appVars == <<installed_apps, addResult, lastRemoved, cycle>>
prefVars == <<user_prefs, tables, prefCall, getCall>>
threadVars == <<lock, tpc, tnow, admittedAt>>
dbVars == <<appVars, prefVars>>
adaptiveVars == <<adaptive, lastRecord>>
wrapperVars == <<inner, alock, held, retired, apc, call, wrapped>>
directVars == <<keyCall, admittedKey, waitCall>>
waitVars == <<waiters, started, polled>>
moreVars == <<directVars, waitVars, batchCall>>
restVars == <<adaptiveVars, wrapperVars, exportCall, moreVars>>
vars == <<now, limiterVars, searchVars, appVars, prefVars, threadVars, restVars>>

\* ------------------------------------------------------------ pure helpers
\* Python seq[:n] for n >= 0 (main.py:54, main.py:60)
SliceMut(s, n) == s
Slice(s, n) == SubSeq(s, 1, Min(n, Len(s)))

\* str.strip() over texts of blanks and letters (main.py:371, snap_backend.py:72)
RECURSIVE lstrip(_)
lstrip(s) == IF s # <<>> /\ Head(s) = " " THEN lstrip(Tail(s)) ELSE s
RECURSIVE rstrip(_)
rstrip(s) == IF s # <<>> /\ s[Len(s)] = " " THEN rstrip(SubSeq(s, 1, Len(s) - 1)) ELSE s
strip(s) == rstrip(lstrip(s))

Chars == {" ", "a"}
Queries == UNION {[1..n -> Chars] : n \in 0..MaxQueryLen}

\* ------------------------------------------------------------- RateLimiter
\* while self._requests and self._requests[0] < cutoff: popleft()  (rate_limiter.py:49-50)
PurgeNothingMut(reqs, cutoff) == reqs
RECURSIVE PurgeMut(_, _)
PurgeMut(reqs, cutoff) ==
    IF reqs # <<>> /\ Head(reqs) <= cutoff THEN PurgeMut(Tail(reqs), cutoff) ELSE reqs
RECURSIVE Purge(_, _)
Purge(reqs, cutoff) ==
    IF reqs # <<>> /\ Head(reqs) < cutoff THEN Purge(Tail(reqs), cutoff) ELSE reqs

\* RateLimiter.is_allowed under its lock (rate_limiter.py:44-57):
\* the admission decision and the deque it leaves behind
is_allowed(reqs, t, maxr, win) ==
    LET kept == Purge(reqs, t - win) IN
    IF Len(kept) < maxr
    THEN [ok |-> TRUE, reqs |-> Append(kept, t)]
    ELSE [ok |-> FALSE, reqs |-> kept]

\* RateLimiter.get_wait_time under the lock (rate_limiter.py:86-95)
get_wait_time(reqs, t, maxr, win) ==
    IF Len(reqs) < maxr THEN 0 ELSE Max(0, (Head(reqs) + win) - t)

\* ---------------------------------------------------------------- backends
\* registration order of UnifiedPackageManager.search_packages (main.py:380-385)
Packages == {"pkg-x", "pkg-y"}
PriorityOrder == <<"apt", "snap", "flatpak">>
BackendNames == {"apt", "snap", "flatpak"}

\* lengths of the list the external command / API produces
SmallLen == 2
RawLens == {0, SmallLen, MAX_PER_SOURCE, MAX_PER_SOURCE + MaxExtra,
            MAX_TOTAL_RESULTS + MaxExtra}

\* what the world outside does on one search: the subprocess raises (timeout,
\* OSError), or prints n result lines, with or without a repeated entry; the
\* object behind backend.search_packages may or may not cut at `limit`
\* (the three backends do; main.py:54 and main.py:59 guard against one that does not)
Outcomes ==
    {[kind |-> "raise", n |-> 0, dup |-> FALSE, honours |-> TRUE]}
    \cup {[kind |-> "lines", n |-> n, dup |-> FALSE, honours |-> h] :
              n \in RawLens, h \in BOOLEAN}
    \cup {[kind |-> "lines", n |-> SmallLen, dup |-> TRUE, honours |-> TRUE]}

NotCalled == [status |-> "notcalled", n |-> 0, dup |-> FALSE]

\* search_packages of AptBackend / SnapBackend / FlatpakBackend
\* (apt_backend.py:48-103, snap_backend.py:62-119, flatpak_backend.py:87-117):
\* blank query -> [] without running anything; else the command runs and the
\* lines are cut to lines[:limit]
backend_search(q, limit, out) ==
    IF strip(q) = <<>> THEN [status |-> "ok", n |-> 0, dup |-> FALSE, ran |-> FALSE]
    ELSE IF out.kind = "raise" THEN [status |-> "raised", n |-> 0, dup |-> FALSE, ran |-> TRUE]
    ELSE LET m == IF out.honours THEN Min(out.n, limit) ELSE out.n IN
         [status |-> "ok", n |-> m, dup |-> (out.dup /\ m >= 2), ran |-> TRUE]

\* the records of a returned list: every record carries the backend's
\* package_type and the package_name of its line (snap_backend.py:103-112)
NameAt(i, dup) == IF dup THEN (i + 1) \div 2 ELSE i
Records(b, d) ==
    IF d.status = "ok"
    THEN [i \in 1..d.n |-> [package_type |-> b, package_name |-> NameAt(i, d.dup)]]
    ELSE <<>>

\* @rate_limit('snap', wait=True) wraps SnapBackend.search_packages only
\* (snap_backend.py:61); apt and flatpak searches are not limited
RateLimited(b) == b = "snap"


\* --------------------------------------------------------- DatabaseManager
\* ALLOWED_PREFERENCE_KEYS (database.py:17-24)
ALLOWED_PREFERENCE_KEYS ==
    {"repo_flathub_enabled", "repo_snapd_enabled", "repo_apt_enabled",
     "notifications_enabled", "log_retention_days", "auto_save_metadata"}

\* the row INSERT INTO user_prefs (id) VALUES (1) creates from the column
\* defaults (database.py:87-103)
DefaultPrefsRow ==
    [id |-> 1, repo_flathub_enabled |-> 1, repo_snapd_enabled |-> 1, repo_apt_enabled |-> 1,
     notifications_enabled |-> 1, log_retention_days |-> 30, auto_save_metadata |-> 1]

\* CREATE TABLE IF NOT EXISTS ... (database.py:63-129)
AllTables == {"installed_apps", "user_prefs", "logs", "custom_repositories"}

\* get_preferences (database.py:200-231): the singleton row, recreated from
\* the defaults when it is missing; `rows` is the table it leaves behind
get_preferences(rows) ==
    LET found == {r \in rows : r.id = 1} IN
    IF found # {}
    THEN [rows |-> rows, prefs |-> CHOOSE r \in found : TRUE]
    ELSE [rows |-> rows \cup {DefaultPrefsRow}, prefs |-> DefaultPrefsRow]

\* the preference column that enables each backend (main.py:380-384)
EnableKey(b) ==
    CASE b = "apt" -> "repo_apt_enabled"
      [] b = "snap" -> "repo_snapd_enabled"
      [] b = "flatpak" -> "repo_flathub_enabled"

\* ------------------------------------------------------------ SearchWorker
\* results.extend(packages[:remaining])  (main.py:54)
extendMut(res, packages) == packages \o res
extend(res, packages) == res \o packages

\* except Exception as e: print(...)  (main.py:55-56): the failure is
\* swallowed and the loop goes on to the next backend
OnBackendExceptionMut == "propagate"
OnBackendException == "continue"

Toggle(x) == 1 - x
NoSearch == [backend |-> "none", query |-> <<>>, status |-> "none", n |-> 0,
             ran |-> FALSE, admitted |-> FALSE, seq |-> 0]
CallRecord(b, q, r) ==
    [backend |-> b, query |-> q, status |-> r.status, n |-> r.n, ran |-> r.ran,
     admitted |-> RateLimited(b), seq |-> Toggle(lastSearch.seq)]

\* UnifiedPackageManager.search_packages (main.py:369-405): `text` is the
\* search box, `available` the backends whose is_available() answers True
search_packages(text, available) ==
    /\ pc # "running"
    /\ searches < MaxSearches
    /\ LET q == strip(text)
           got == get_preferences(user_prefs)
           bs == SelectSeq(PriorityOrder,
                           LAMBDA b : got.prefs[EnableKey(b)] # 0 /\ b \in available) IN
       IF q = <<>>
       THEN /\ warning' = "Please enter a search term"
            /\ UNCHANGED <<backends, query, results, idx, pc, returned, lastSearch, searches,
                           user_prefs>>
       ELSE IF bs = <<>>
       THEN /\ warning' = "No package repositories are enabled"
            /\ user_prefs' = got.rows
            /\ UNCHANGED <<backends, query, results, idx, pc, returned, lastSearch, searches>>
       ELSE /\ user_prefs' = got.rows
            /\ warning' = ""
            /\ backends' = bs
            /\ query' = q
            /\ results' = <<>>
            /\ idx' = 1
            /\ pc' = "running"
            /\ returned' = [b \in BackendNames |-> NotCalled]
            /\ searches' = searches + 1
            /\ UNCHANGED lastSearch
    /\ UNCHANGED <<now, limiterVars, appVars, tables, prefCall, getCall, threadVars, restVars>>

\* one pass of `for backend in self.backends` in SearchWorker.run (main.py:44-56)
run_backend(out) ==
    /\ pc = "running"
    /\ idx <= Len(backends)
    /\ LET remaining == MAX_TOTAL_RESULTS - Len(results)
           b == backends[idx] IN
       IF remaining <= 0
       THEN \* break
            /\ idx' = Len(backends) + 1
            /\ UNCHANGED <<results, pc, returned, lastSearch, requests>>
       ELSE LET limit == Min(MAX_PER_SOURCE, remaining)
                adm == is_allowed(requests, now, max_requests, time_window)
                r == backend_search(query, limit, out) IN
            \* wait_if_needed polls is_allowed until it admits (rate_limiter.py:71-72)
            /\ RateLimited(b) => adm.ok
            /\ requests' = IF RateLimited(b) THEN adm.reqs ELSE requests
            /\ lastSearch' = CallRecord(b, query, r)
            /\ returned' = [returned EXCEPT ![b] = [status |-> r.status, n |-> r.n, dup |-> r.dup]]
            /\ IF r.status = "raised" /\ OnBackendException # "continue"
               THEN \* the outer handler emits the error signal (main.py:63-64)
                    /\ pc' = "error"
                    /\ UNCHANGED <<results, idx>>
               ELSE /\ results' = extend(results, Slice(Records(b, r), remaining))
                    /\ idx' = idx + 1
                    /\ pc' = pc
    /\ UNCHANGED <<now, max_requests, time_window, backends, query, warning, searches,
                   appVars, prefVars, threadVars, restVars>>

\* after the loop: the final cut and self.finished.emit(results) (main.py:58-62)
run_finished ==
    /\ pc = "running"
    /\ idx > Len(backends)
    /\ results' = IF Len(results) > MAX_TOTAL_RESULTS
                  THEN Slice(results, MAX_TOTAL_RESULTS) ELSE results
    /\ pc' = "finished"
    /\ UNCHANGED <<now, limiterVars, backends, query, idx, returned, lastSearch,
                   warning, searches, appVars, prefVars, threadVars, restVars>>

\* a backend's search_packages called on its own, with no SearchWorker around
\* (tests/test_snap_backend.py:240, tests/test_apt_backend.py:150-153)
direct_search(b, q, out) ==
    /\ pc = "idle"
    /\ searches < MaxSearches
    /\ LET adm == is_allowed(requests, now, max_requests, time_window)
           r == backend_search(q, DEFAULT_LIMIT, out) IN
       /\ RateLimited(b) => adm.ok
       /\ requests' = IF RateLimited(b) THEN adm.reqs ELSE requests
       /\ lastSearch' = CallRecord(b, q, r)
    /\ searches' = searches + 1
    /\ UNCHANGED <<now, max_requests, time_window, backends, query, results, idx, pc,
                   returned, warning, appVars, prefVars, threadVars, restVars>>

\* the clock
Tick(horizon) ==
    /\ now < horizon
    /\ now' = now + 1
    /\ UNCHANGED <<limiterVars, searchVars, appVars, prefVars, threadVars, restVars>>

InitSearchVars ==
    /\ backends = <<>>
    /\ query = <<>>
    /\ results = <<>>
    /\ idx = 1
    /\ pc = "idle"
    /\ returned = [b \in BackendNames |-> NotCalled]
    /\ lastSearch = NoSearch
    /\ warning = ""
    /\ searches = 0

\* DatabaseManager.__init__ on a fresh file: create_tables (database.py:33-35)
InitDatabase ==
    /\ installed_apps = <<>>
    /\ user_prefs = {DefaultPrefsRow}
    /\ tables = AllTables
    /\ addResult = [package_name |-> "", ok |-> FALSE, raised |-> "", seq |-> 0]
    /\ lastRemoved = [package_name |-> "", seq |-> 0]
    /\ cycle = [p \in Packages |-> 0]
    /\ prefCall = [key |-> "", value |-> 0, raised |-> "", executed |-> FALSE, seq |-> 0]
    /\ getCall = [pc |-> "idle", recreated |-> FALSE, raised |-> "", result |-> {}, seq |-> 0]

Threads == 1..NumThreads

\* no thread is inside the limiter
InitThreads ==
    /\ lock = 0
    /\ tpc = [t \in Threads |-> "idle"]
    /\ tnow = [t \in Threads |-> 0]
    /\ admittedAt = [u \in 0..MaxTime |-> 0]

\* references to RateLimiter objects: none (-1), the object self._limiter was
\* last assigned (0), or a replaced object (its place 1, 2, ... in `retired`)
NoRef == -1
InnerRef == 0

NoRecord == [kind |-> "none", seq |-> 0]
NoCall == [admitted |-> FALSE, decided_by |-> "", outcome |-> "", executed |-> 0,
           recorded |-> 0, raised |-> ""]
NoWrapped == [admitted |-> FALSE, executed |-> 0, outcome |-> "", raised |-> "",
              wait_time |-> 0, seq |-> 0]
NoExport == [filepath |-> <<>>, absolute |-> FALSE, cwd |-> <<>>, raised |-> "",
             queried |-> FALSE, opened |-> FALSE, seq |-> 0]
Keys == {"default", "flathub"}
NoKeyCall == [key |-> "", ok |-> FALSE, seq |-> 0]
NoWaitCall == [t |-> 0, w |-> 0, untouched |-> FALSE, seq |-> 0]
NoWaiter == [pc |-> "idle", denied |-> FALSE]
NoBatch == [items |-> <<>>, raised |-> "", seq |-> 0]

\* nothing has been called yet
InitRest ==
    /\ lastRecord = NoRecord
    /\ inner = InnerRef
    /\ alock = 0
    /\ held = [t \in Threads |-> NoRef]
    /\ retired = <<>>
    /\ apc = [t \in Threads |-> "idle"]
    /\ call = [t \in Threads |-> NoCall]
    /\ wrapped = NoWrapped
    /\ exportCall = NoExport
    /\ keyCall = NoKeyCall
    /\ admittedKey = [k \in Keys |-> <<>>]
    /\ waitCall = NoWaitCall
    /\ waiters = [t \in Threads |-> NoWaiter]
    /\ started = 0
    /\ polled = 0
    /\ batchCall = NoBatch

\* AdaptiveRateLimiter.__init__ (rate_limiter.py:230-243)
NewAdaptive(initial_max_requests, sample_size) ==
    [min_requests |-> Max(1, initial_max_requests \div 10),
     max_requests |-> initial_max_requests,
     current_max |-> initial_max_requests,
     success_count |-> 0,
     error_count |-> 0,
     sample_size |-> sample_size]

\* the process-wide 'snap' limiter (rate_limiter.py:164)
InitSnapLimiter ==
    /\ max_requests = SNAP_MAX_REQUESTS
    /\ time_window = SNAP_TIME_WINDOW
    /\ requests = <<>>

InitSearch ==
    /\ now = 0
    /\ InitSnapLimiter
    /\ InitSearchVars
    /\ InitDatabase
    /\ InitThreads
    /\ adaptive = NewAdaptive(DEFAULT_INITIAL_MAX, DEFAULT_SAMPLE_SIZE)
    /\ InitRest

NextSearch ==
    \/ \E text \in Queries, available \in SUBSET BackendNames : search_packages(text, available)
    \/ \E out \in Outcomes : run_backend(out)
    \/ run_finished
    \/ \E b \in BackendNames, q \in Queries, out \in Outcomes : direct_search(b, q, out)
    \/ Tick(MaxSearchTime)

SpecSearch == InitSearch /\ [][NextSearch]_vars


\* ===================================================== search: properties
Queried == {backends[i] : i \in DOMAIN backends}
OfType(b) == SelectSeq(results, LAMBDA r : r.package_type = b)
CountOf(b) == Len(OfType(b))
Returned(b) == Records(b, returned[b])
IgnoredLimit(b) == returned[b].status = "ok" /\ returned[b].n > MAX_PER_SOURCE

\* C1: the list SearchWorker.run emits never holds more than
\* MAX_TOTAL_RESULTS records, whatever the backends returned.
C1_CapInvariant == pc = "finished" => Len(results) <= MAX_TOTAL_RESULTS

\* C1 witness: all three backends were queried, the first two handed back
\* more than any limit asked of them, and the emitted list is full.
C1_Witness ==
    /\ pc = "finished"
    /\ backends = PriorityOrder
    /\ IgnoredLimit("apt") /\ IgnoredLimit("snap") /\ IgnoredLimit("flatpak")
    /\ Len(results) = MAX_TOTAL_RESULTS

\* C2: when a backend's search raises, the run still ends with the finished
\* signal (never the error signal), the failed backend contributes nothing,
\* and every other queried backend's records are in the result exactly as far
\* as the room left by the backends before it allows.
C2_FailureIsolation ==
    /\ pc # "error"
    /\ (pc = "finished" /\ \E f \in Queried : returned[f].status = "raised") =>
          /\ \A b \in Queried : returned[b].status = "raised" => CountOf(b) = 0
          /\ OfType("apt") = Slice(Returned("apt"), MAX_TOTAL_RESULTS)
          /\ OfType("snap") = Slice(Returned("snap"), MAX_TOTAL_RESULTS - CountOf("apt"))
          /\ OfType("flatpak") =
                 Slice(Returned("flatpak"), MAX_TOTAL_RESULTS - CountOf("apt") - CountOf("snap"))

\* C2 witness: Snap raised between APT and Flatpak, and both of those have
\* records in the emitted list.
C2_Witness ==
    /\ pc = "finished"
    /\ backends = PriorityOrder
    /\ returned["snap"].status = "raised"
    /\ CountOf("apt") > 0 /\ CountOf("flatpak") > 0 /\ CountOf("snap") = 0

\* C7 (as claimed): the emitted list never holds two records with the same
\* (package_type, package_name).
C7_NoDuplicateIdentity ==
    pc = "finished" => Cardinality({results[i] : i \in DOMAIN results}) = Len(results)

\* C8 (as claimed): a backend search with an empty or whitespace-only query
\* returns an empty list, runs no external search and records no timestamp
\* in the rate limiter.
C8_BlankQueryNoEffect ==
    [][(lastSearch'.seq # lastSearch.seq /\ strip(lastSearch'.query) = <<>>) =>
          /\ lastSearch'.status = "ok" /\ lastSearch'.n = 0
          /\ ~lastSearch'.ran
          /\ requests' = requests]_vars

\* C9 (as claimed): APT, Snap and Flatpak all queried and each returning at
\* least MAX_PER_SOURCE records gives exactly MAX_PER_SOURCE records of each,
\* APT first, then Snap, then Flatpak.
C9_ExactlyPerSourceEach ==
    (/\ pc = "finished"
     /\ backends = PriorityOrder
     /\ \A b \in BackendNames : returned[b].status = "ok" /\ returned[b].n >= MAX_PER_SOURCE)
    => results = Slice(Returned("apt"), MAX_PER_SOURCE)
                 \o Slice(Returned("snap"), MAX_PER_SOURCE)
                 \o Slice(Returned("flatpak"), MAX_PER_SOURCE)

\* C10: the emitted list is a prefix of what APT returned, then a prefix of
\* what Snap returned, then a prefix of what Flatpak returned.
C10_PriorityConcatenation ==
    pc = "finished" =>
        results = Slice(Returned("apt"), CountOf("apt"))
                  \o Slice(Returned("snap"), CountOf("snap"))
                  \o Slice(Returned("flatpak"), CountOf("flatpak"))

\* C10 witness: three backends each contributed, the last one cut short.
C10_Witness ==
    /\ pc = "finished"
    /\ CountOf("apt") > 0 /\ CountOf("snap") > 0 /\ CountOf("flatpak") > 0
    /\ CountOf("flatpak") < returned["flatpak"].n


\* ========================================================= installed_apps
NULL == <<>>    \* a NULL column; a timestamp t is stored as <<t>>

RowsOf(rows, p) == {i \in DOMAIN rows : rows[i].package_name = p}
ActiveRowsOf(rows, p) == {i \in RowsOf(rows, p) : rows[i].deleted_at = NULL}

\* package_name TEXT NOT NULL UNIQUE (database.py:67): the constraint spans
\* every row of the table, soft-deleted ones included
UniqueConflictMut(rows, p) == FALSE
UniqueConflict(rows, p) == RowsOf(rows, p) # {}

\* is_app_installed (database.py:189-196)
is_app_installed(p) == Cardinality(ActiveRowsOf(installed_apps, p)) > 0

\* the add / remove / add pattern of the calls made for one package
AfterAdd(c) == IF c = 2 THEN 3 ELSE 1
AfterRemove(c) == IF c \in {1, 3} THEN 2 ELSE 0

\* get_installed_apps() with no package_type (database.py:169-187): the
\* package_name of every row WHERE deleted_at IS NULL
get_installed_apps(rows) == {rows[i].package_name : i \in {j \in DOMAIN rows : rows[j].deleted_at = NULL}}

\* except sqlite3.IntegrityError: return False (database.py:145-147)
OnIntegrityErrorMut == "raise"
OnIntegrityError == "return False"

\* add_installed_app (database.py:135-147): INSERT and commit; the INSERT is
\* one SQLite statement, checked against the constraint and applied as a
\* unit whichever thread's connection runs it
add_installed_app(p) ==
    /\ IF UniqueConflict(installed_apps, p)
       THEN /\ addResult' = [package_name |-> p, ok |-> FALSE,
                             raised |-> IF OnIntegrityError = "return False"
                                        THEN "" ELSE "IntegrityError",
                             seq |-> Toggle(addResult.seq)]
            /\ UNCHANGED installed_apps
       ELSE /\ installed_apps' = Append(installed_apps,
                   [id |-> Len(installed_apps) + 1, package_name |-> p, deleted_at |-> NULL])
            /\ addResult' = [package_name |-> p, ok |-> TRUE, raised |-> "",
                             seq |-> Toggle(addResult.seq)]
    /\ cycle' = [cycle EXCEPT ![p] = AfterAdd(@)]
    /\ UNCHANGED <<now, limiterVars, searchVars, prefVars, lastRemoved, threadVars, restVars>>

\* UPDATE installed_apps SET deleted_at = ? WHERE package_name = ? AND
\* deleted_at IS NULL (database.py:152-155): the rows after the statement
soft_deleteMut(rows, p, t) == SelectSeq(rows, LAMBDA r : r.package_name # p)
soft_delete(rows, p, t) ==
    [i \in DOMAIN rows |->
        IF rows[i].package_name = p /\ rows[i].deleted_at = NULL
        THEN [rows[i] EXCEPT !.deleted_at = <<t>>]
        ELSE rows[i]]

\* remove_installed_app (database.py:149-156)
remove_installed_app(p) ==
    /\ installed_apps' = soft_delete(installed_apps, p, now)
    /\ lastRemoved' = [package_name |-> p, seq |-> Toggle(lastRemoved.seq)]
    /\ cycle' = [cycle EXCEPT ![p] = AfterRemove(@)]
    /\ UNCHANGED <<now, limiterVars, searchVars, prefVars, addResult, threadVars, restVars>>

InitApps ==
    /\ now = 0
    /\ InitSnapLimiter
    /\ InitSearchVars
    /\ InitDatabase
    /\ InitThreads
    /\ adaptive = NewAdaptive(DEFAULT_INITIAL_MAX, DEFAULT_SAMPLE_SIZE)
    /\ InitRest

NextApps ==
    \/ \E p \in Packages : add_installed_app(p)
    \/ \E p \in Packages : remove_installed_app(p)
    \/ Tick(MaxTime)

SpecApps == InitApps /\ [][NextApps]_vars

\* C3 (as claimed): once the calls for a package spell add, remove, add, the
\* package is installed again, through a second row, with exactly one row
\* whose deleted_at is null.
C3_ReinstallCreatesSecondRow ==
    \A p \in Packages :
        cycle[p] = 3 =>
            /\ is_app_installed(p)
            /\ Cardinality(RowsOf(installed_apps, p)) >= 2
            /\ Cardinality(ActiveRowsOf(installed_apps, p)) = 1

\* C11: a successful add_installed_app leaves the package installed; a
\* remove_installed_app leaves it not installed and out of
\* get_installed_apps, while the row it had is still stored, now with a
\* non-null deleted_at; and no call ever takes a row out of the table.
C11_SoftDeleteRoundTrip ==
    [][/\ (addResult'.seq # addResult.seq /\ addResult'.ok) =>
              ActiveRowsOf(installed_apps', addResult'.package_name) # {}
       /\ lastRemoved'.seq # lastRemoved.seq =>
              LET p == lastRemoved'.package_name IN
              /\ ActiveRowsOf(installed_apps', p) = {}
              /\ p \notin get_installed_apps(installed_apps')
              /\ \A i \in ActiveRowsOf(installed_apps, p) :
                     /\ i \in RowsOf(installed_apps', p)
                     /\ installed_apps'[i].deleted_at # NULL
       /\ Len(installed_apps') >= Len(installed_apps)
       /\ \A i \in DOMAIN installed_apps :
              /\ installed_apps'[i].id = installed_apps[i].id
              /\ installed_apps'[i].package_name = installed_apps[i].package_name]_vars

\* C11 witness: a package was added and then removed: it is not installed,
\* not listed, and its row is stored with a deleted_at, next to a package
\* that is still installed.
C11_Witness ==
    \E p \in Packages, q \in Packages :
        /\ lastRemoved.package_name = p
        /\ ~is_app_installed(p)
        /\ \E i \in RowsOf(installed_apps, p) : installed_apps[i].deleted_at # NULL
        /\ get_installed_apps(installed_apps) = {q}

\* C12: whatever add_installed_app and remove_installed_app calls were
\* made, no package_name has more than one row with deleted_at null.
C12_AtMostOneActiveRow ==
    \A p \in Packages : Cardinality(ActiveRowsOf(installed_apps, p)) <= 1

\* C12 witness: both packages are installed and a further add of one of
\* them has just been refused.
C12_Witness ==
    /\ \A p \in Packages : Cardinality(ActiveRowsOf(installed_apps, p)) = 1
    /\ addResult.seq = 1 /\ ~addResult.ok

\* C13: add_installed_app for a package that has an active row returns
\* False, raises nothing and leaves every row of installed_apps as it was.
C13_AddOnActiveRefused ==
    [][(addResult'.seq # addResult.seq
        /\ ActiveRowsOf(installed_apps, addResult'.package_name) # {}) =>
          /\ ~addResult'.ok
          /\ addResult'.raised = ""
          /\ installed_apps' = installed_apps]_vars

\* C13 witness: the only row of the table is active and an add for its
\* package came back False.
C13_Witness ==
    /\ Len(installed_apps) = 1
    /\ installed_apps[1].deleted_at = NULL
    /\ addResult.package_name = installed_apps[1].package_name
    /\ ~addResult.ok /\ addResult.raised = ""

\* ============================================================= user_prefs
PrefValues == {0, 1}

\* keys a caller may pass that are not preference names: an unknown column,
\* the statement-stacking text of tests/test_database.py:54, a second
\* assignment smuggled into the SET clause, and the table's key column
RejectedKeys ==
    {"malicious_key",
     "repo_flathub_enabled = 1; DROP TABLE user_prefs; --",
     "repo_apt_enabled = 0, log_retention_days",
     "id"}
PreferenceKeys == ALLOWED_PREFERENCE_KEYS \cup RejectedKeys

\* cursor.execute(f"UPDATE user_prefs SET {key} = ? WHERE id = 1", (value,))
\* (database.py:238-239) as sqlite3 runs it: a column name is assigned, a
\* smuggled assignment is carried out too, an unknown column or a second
\* statement is an error that changes nothing
execute_update(rows, key, value) ==
    IF key \in ALLOWED_PREFERENCE_KEYS \cup {"id"}
    THEN {IF r.id = 1 THEN [r EXCEPT ![key] = value] ELSE r : r \in rows}
    ELSE IF key = "repo_apt_enabled = 0, log_retention_days"
    THEN {IF r.id = 1 THEN [r EXCEPT !.repo_apt_enabled = 0, !.log_retention_days = value]
          ELSE r : r \in rows}
    ELSE rows

\* if key not in self.ALLOWED_PREFERENCE_KEYS: raise ValueError (database.py:236-237)
KeyAllowedMut(key) == TRUE
KeyAllowed(key) == key \in ALLOWED_PREFERENCE_KEYS

\* update_preference (database.py:233-240)
update_preference(key, value) ==
    /\ IF ~KeyAllowed(key)
       THEN /\ prefCall' = [key |-> key, value |-> value, raised |-> "ValueError",
                            executed |-> FALSE, seq |-> Toggle(prefCall.seq)]
            /\ UNCHANGED user_prefs
       ELSE /\ user_prefs' = execute_update(user_prefs, key, value)
            /\ prefCall' = [key |-> key, value |-> value, raised |-> "",
                            executed |-> TRUE, seq |-> Toggle(prefCall.seq)]
    /\ UNCHANGED <<now, limiterVars, searchVars, appVars, tables, getCall, threadVars, restVars>>

\* the dict get_preferences builds from the row (database.py:224-231)
as_dict(row) ==
    [repo_flathub_enabled |-> row.repo_flathub_enabled # 0,
     repo_snapd_enabled |-> row.repo_snapd_enabled # 0,
     repo_apt_enabled |-> row.repo_apt_enabled # 0,
     notifications_enabled |-> row.notifications_enabled # 0,
     log_retention_days |-> row.log_retention_days,
     auto_save_metadata |-> row.auto_save_metadata # 0]

\* if row is None: INSERT ... and retry (database.py:210-220)
OnMissingRowMut == "use row"
OnMissingRow == "recreate"

Singleton(rows) == {r \in rows : r.id = 1}
Finished(recreated, raised, result) ==
    [pc |-> "idle", recreated |-> recreated, raised |-> raised, result |-> result,
     seq |-> Toggle(getCall.seq)]

\* get_preferences, statement by statement. The first SELECT ... WHERE id = 1
\* and fetchone (database.py:202-207); a row found is returned as a dict
get_select ==
    /\ getCall.pc = "idle"
    /\ IF Singleton(user_prefs) # {}
       THEN getCall' = Finished(FALSE, "", {as_dict(r) : r \in Singleton(user_prefs)})
       ELSE IF OnMissingRow = "recreate"
       THEN getCall' = [getCall EXCEPT !.pc = "insert", !.recreated = FALSE, !.raised = "",
                                       !.result = {}]
       ELSE \* row[0] with row = None
            getCall' = Finished(FALSE, "TypeError", {})
    /\ UNCHANGED <<now, limiterVars, searchVars, appVars, user_prefs, tables, prefCall,
                   threadVars, restVars>>

\* INSERT INTO user_prefs (id) VALUES (1) and commit (database.py:212-213)
get_insert ==
    /\ getCall.pc = "insert"
    /\ IF Singleton(user_prefs) # {}
       THEN \* id is the PRIMARY KEY (database.py:87)
            /\ getCall' = Finished(FALSE, "IntegrityError", {})
            /\ UNCHANGED user_prefs
       ELSE /\ user_prefs' = user_prefs \cup {DefaultPrefsRow}
            /\ getCall' = [getCall EXCEPT !.pc = "retry", !.recreated = TRUE]
    /\ UNCHANGED <<now, limiterVars, searchVars, appVars, tables, prefCall, threadVars, restVars>>

\* the second SELECT; still no row is the RuntimeError (database.py:215-231)
get_retry ==
    /\ getCall.pc = "retry"
    /\ IF Singleton(user_prefs) # {}
       THEN getCall' = Finished(TRUE, "", {as_dict(r) : r \in Singleton(user_prefs)})
       ELSE getCall' = Finished(TRUE, "RuntimeError", {})
    /\ UNCHANGED <<now, limiterVars, searchVars, appVars, user_prefs, tables, prefCall,
                   threadVars, restVars>>

\* the preferences row lost behind the manager's back, as
\* DELETE FROM user_prefs does (tests/test_database.py:111)
delete_prefs_row ==
    /\ user_prefs # {}
    /\ user_prefs' = {}
    /\ UNCHANGED <<now, limiterVars, searchVars, appVars, tables, prefCall, getCall,
                   threadVars, restVars>>

InitPrefs ==
    /\ now = 0
    /\ InitSnapLimiter
    /\ InitSearchVars
    /\ InitDatabase
    /\ InitThreads
    /\ adaptive = NewAdaptive(DEFAULT_INITIAL_MAX, DEFAULT_SAMPLE_SIZE)
    /\ InitRest

NextPrefs ==
    \E key \in PreferenceKeys, value \in PrefValues : update_preference(key, value)

SpecPrefs == InitPrefs /\ [][NextPrefs]_vars

\* C4: update_preference with a key outside the whitelist ends in the
\* validation error with no query built or run: the user_prefs table is
\* still there and every stored preference is what it was.
C4_WhitelistRejects ==
    [][(prefCall'.seq # prefCall.seq /\ prefCall'.key \notin ALLOWED_PREFERENCE_KEYS) =>
          /\ prefCall'.raised = "ValueError"
          /\ ~prefCall'.executed
          /\ "user_prefs" \in tables'
          /\ user_prefs' = user_prefs]_vars

\* C4 witness: a rejected call arrived after preferences had been changed
\* from their defaults.
C4_Witness ==
    /\ prefCall.key \in RejectedKeys
    /\ prefCall.raised = "ValueError"
    /\ user_prefs # {DefaultPrefsRow}
    /\ "user_prefs" \in tables

\* get_preferences next to the loss of the row and to updates of a flag
\* column and of the integer column
HealKeys == {"repo_apt_enabled", "log_retention_days"}

NextHeal ==
    \/ get_select
    \/ get_insert
    \/ get_retry
    \/ delete_prefs_row
    \/ \E key \in HealKeys, value \in PrefValues : update_preference(key, value)

SpecHeal == InitPrefs /\ [][NextHeal]_vars

\* C19: get_preferences that finds no row with id = 1 inserts the row with the
\* column defaults and asks again; a call that returns hands back all six
\* preference keys, and the only error a call ends in is the RuntimeError of
\* a row still missing after the one insert-and-retry.
C19_SelfHealing ==
    [][/\ (getCall.pc = "idle" /\ getCall' # getCall /\ Singleton(user_prefs) = {}) =>
              getCall'.pc = "insert"
       /\ (getCall.pc = "insert" /\ getCall' # getCall) =>
              /\ getCall'.pc = "retry"
              /\ Singleton(user_prefs') = {DefaultPrefsRow}
       /\ getCall'.seq # getCall.seq =>
              /\ getCall'.raised \in {"", "RuntimeError"}
              /\ getCall'.raised = "" =>
                     /\ Cardinality(getCall'.result) = 1
                     /\ \A d \in getCall'.result :
                            /\ DOMAIN d = ALLOWED_PREFERENCE_KEYS
                            /\ \A r \in Singleton(user_prefs) : d = as_dict(r)
              /\ getCall'.raised = "RuntimeError" =>
                     /\ getCall'.recreated
                     /\ Singleton(user_prefs) = {}]_vars

\* C19 witness: the row had been lost, and the call that found it missing
\* returned the default preferences from the row it put back.
C19_Witness ==
    /\ getCall.pc = "idle"
    /\ getCall.recreated
    /\ getCall.raised = ""
    /\ getCall.result = {as_dict(DefaultPrefsRow)}
    /\ user_prefs = {DefaultPrefsRow}
    /\ prefCall.executed

\* ============================================================ export_logs
\* a path is its components and whether it starts at the root; the file
\* system has the root, the three system directories and /tmp
Names == {"etc", "sys", "proc", "tmp", "..", "export.txt"}
SensitiveDirs == {"etc", "sys", "proc"}
Directories == {<<>>, <<"etc">>, <<"sys">>, <<"proc">>, <<"tmp">>}
PathParts == UNION {[1..n -> Names] : n \in 1..MaxPathLen}

\* os.path.normpath over the components: ".." leaves the directory reached
\* so far, and stays at the root when there is nothing to leave
RECURSIVE normpath(_, _)
normpath(done, todo) ==
    IF todo = <<>> THEN done
    ELSE IF Head(todo) = ".."
    THEN normpath(IF done = <<>> THEN done ELSE SubSeq(done, 1, Len(done) - 1), Tail(todo))
    ELSE normpath(Append(done, Head(todo)), Tail(todo))

\* os.path.abspath(filepath) (database.py:293): joined to the working
\* directory unless absolute, then normalised
abspath(absolute, parts, cwd) == normpath(<<>>, IF absolute THEN parts ELSE cwd \o parts)

\* '..' in filepath or filepath.startswith('/etc') or ... (database.py:296):
\* tests on the text that was passed in
Suspicious(absolute, parts) ==
    \/ \E i \in DOMAIN parts : parts[i] = ".."
    \/ absolute /\ parts[1] \in SensitiveDirs

\* os.path.dirname(abs_path) (database.py:300)
dirname(path) == IF path = <<>> THEN path ELSE SubSeq(path, 1, Len(path) - 1)

\* export_logs(filepath) called with working directory cwd (database.py:289-316)
export_logs(absolute, parts, cwd) ==
    /\ LET abs_path == abspath(absolute, parts, cwd)
           ended(raised, queried, opened) ==
               [filepath |-> parts, absolute |-> absolute, cwd |-> cwd, raised |-> raised,
                queried |-> queried, opened |-> opened, seq |-> Toggle(exportCall.seq)] IN
       exportCall' =
           IF Suspicious(absolute, parts) THEN ended("ValueError: Invalid file path", FALSE, FALSE)
           ELSE IF dirname(abs_path) \notin Directories
           THEN ended("ValueError: Directory does not exist", FALSE, FALSE)
           ELSE IF abs_path \in Directories
           THEN \* the SELECT has run when open() refuses a directory
                ended("IsADirectoryError", TRUE, FALSE)
           ELSE ended("", TRUE, TRUE)
    /\ UNCHANGED <<now, limiterVars, searchVars, appVars, prefVars, threadVars,
                   adaptiveVars, wrapperVars, moreVars>>

NextExport ==
    \E absolute \in BOOLEAN, parts \in PathParts, cwd \in Directories :
        export_logs(absolute, parts, cwd)

SpecExport == InitPrefs /\ [][NextExport]_vars

\* C20 (as claimed): whatever path is passed and whatever the working
\* directory, export_logs ends in a ValueError, with no log query run and no
\* file opened, when the path holds a parent-directory component, when the
\* place it names lies under /etc, /sys or /proc, or when the directory of
\* that place does not exist.
C20_PathValidation ==
    exportCall.filepath # <<>> =>
        LET place == abspath(exportCall.absolute, exportCall.filepath, exportCall.cwd) IN
        (\/ \E i \in DOMAIN exportCall.filepath : exportCall.filepath[i] = ".."
         \/ (place # <<>> /\ place[1] \in SensitiveDirs)
         \/ dirname(place) \notin Directories)
        => /\ exportCall.raised \in {"ValueError: Invalid file path",
                                     "ValueError: Directory does not exist"}
           /\ ~exportCall.queried
           /\ ~exportCall.opened


\* ==================================== RateLimiter.is_allowed, thread by thread
\* with self._lock: (rate_limiter.py:44) lets a thread in only when no other
\* thread is inside
LockAvailableMut(l) == TRUE
LockAvailable(l) == l = 0

\* a thread calls is_allowed and reaches the `with self._lock` line
call_is_allowed(t) ==
    /\ tpc[t] = "idle"
    /\ tpc' = [tpc EXCEPT ![t] = "acquire"]
    /\ UNCHANGED <<now, limiterVars, searchVars, dbVars, lock, tnow, admittedAt, restVars>>

\* the lock is taken
acquire(t) ==
    /\ tpc[t] = "acquire"
    /\ LockAvailable(lock)
    /\ lock' = t
    /\ tpc' = [tpc EXCEPT ![t] = "purge"]
    /\ UNCHANGED <<now, limiterVars, searchVars, dbVars, tnow, admittedAt, restVars>>

\* now = time.time(); cutoff; the popleft loop (rate_limiter.py:45-50)
purge(t) ==
    /\ tpc[t] = "purge"
    /\ tnow' = [tnow EXCEPT ![t] = now]
    /\ requests' = Purge(requests, now - time_window)
    /\ tpc' = [tpc EXCEPT ![t] = "check"]
    /\ UNCHANGED <<now, max_requests, time_window, searchVars, dbVars, lock, admittedAt, restVars>>

\* if len(self._requests) < self.max_requests (rate_limiter.py:53)
check(t) ==
    /\ tpc[t] = "check"
    /\ tpc' = [tpc EXCEPT ![t] = IF Len(requests) < max_requests THEN "append" ELSE "deny"]
    /\ UNCHANGED <<now, limiterVars, searchVars, dbVars, lock, tnow, admittedAt, restVars>>

\* self._requests.append(now); return True (rate_limiter.py:54-55)
append(t) ==
    /\ tpc[t] = "append"
    /\ requests' = Append(requests, tnow[t])
    /\ admittedAt' = [admittedAt EXCEPT ![tnow[t]] = @ + 1]
    /\ tpc' = [tpc EXCEPT ![t] = "admit"]
    /\ UNCHANGED <<now, max_requests, time_window, searchVars, dbVars, lock, tnow, restVars>>

\* leaving the with block on either return (rate_limiter.py:55, 57)
release(t) ==
    /\ tpc[t] \in {"admit", "deny"}
    /\ lock' = 0
    /\ tpc' = [tpc EXCEPT ![t] = "idle"]
    /\ UNCHANGED <<now, limiterVars, searchVars, dbVars, tnow, admittedAt, restVars>>

\* RateLimiter(max_requests, time_window) (rate_limiter.py:29-32)
InitLimiter ==
    /\ now = 0
    /\ max_requests \in 1..MaxRequests
    /\ time_window \in 1..MaxWindow
    /\ requests = <<>>
    /\ InitSearchVars
    /\ InitDatabase
    /\ InitThreads
    /\ adaptive = NewAdaptive(DEFAULT_INITIAL_MAX, DEFAULT_SAMPLE_SIZE)
    /\ InitRest

NextLimiter ==
    \/ \E t \in Threads : call_is_allowed(t)
    \/ \E t \in Threads : acquire(t)
    \/ \E t \in Threads : purge(t)
    \/ \E t \in Threads : check(t)
    \/ \E t \in Threads : append(t)
    \/ \E t \in Threads : release(t)
    \/ Tick(MaxTime)

SpecLimiter == InitLimiter /\ [][NextLimiter]_vars

RECURSIVE SumOver(_, _)
SumOver(f, S) == IF S = {} THEN 0
                 ELSE LET x == CHOOSE y \in S : TRUE IN f[x] + SumOver(f, S \ {x})

\* the admissions whose timestamp lies in the trailing interval [t - window, t]
AdmittedWithin(t) == SumOver(admittedAt, {u \in 0..MaxTime : t - time_window <= u /\ u <= t})

\* C5: however the threads' is_allowed calls interleave, the timestamp
\* sequence never holds more than max_requests entries, and no trailing
\* interval of length time_window holds more than max_requests admissions.
C5_AtomicAdmission ==
    /\ Len(requests) <= max_requests
    /\ \A t \in 0..MaxTime : AdmittedWithin(t) <= max_requests

\* C5 witness: the limiter is full, one thread has just been denied inside
\* the lock while another waits for it, and earlier entries had been purged.
C5_Witness ==
    \E t1 \in Threads, t2 \in Threads :
        /\ tpc[t1] = "deny" /\ tpc[t2] = "acquire"
        /\ Len(requests) = max_requests
        /\ SumOver(admittedAt, 0..MaxTime) > max_requests

\* C14: a RateLimiter(N, W) denies a call only when N admitted timestamps lie
\* in the trailing window [now - W, now] of that call, and admits one only
\* when, the call itself included, no more than N do: the first N calls within
\* W are admitted, further ones are denied until the oldest admitted call is
\* more than W old.
C14_WindowAdmission ==
    \A t \in Threads :
        /\ tpc[t] = "deny" => AdmittedWithin(tnow[t]) = max_requests
        /\ tpc[t] = "admit" => AdmittedWithin(tnow[t]) <= max_requests

\* C14 witness: the first max_requests calls were all admitted at time 0 and
\* a call is admitted again now that they are more than time_window old.
C14_Witness ==
    \E t \in Threads :
        /\ tpc[t] = "admit"
        /\ admittedAt[0] = max_requests
        /\ tnow[t] > time_window
        /\ SumOver(admittedAt, 0..MaxTime) = max_requests + 1

\* ===================================================== AdaptiveRateLimiter
\* min(self.max_requests, int(self.current_max * 1.5)) (rate_limiter.py:281)
IncreasedMut(a) == (a.current_max * 3) \div 2
IncreasedTwiceMut(a) == Min(a.max_requests, a.current_max * 2)
Increased(a) == Min(a.max_requests, (a.current_max * 3) \div 2)

\* max(self.min_requests, self.current_max // 2) (rate_limiter.py:272)
ReducedMut(a) == a.current_max \div 2
Reduced(a) == Max(a.min_requests, a.current_max \div 2)

\* error_rate > self.error_threshold, with error_threshold = 0.3
\* (rate_limiter.py:241, 268-271): e/t > 0.3 exactly when 10 e > 3 t
HighErrorRate(a) ==
    10 * a.error_count > 3 * (a.success_count + a.error_count)

\* error_rate < (1 - self.success_threshold), with success_threshold = 0.95
\* (rate_limiter.py:242, 280). In binary floating point 1 - 0.95 is
\* 0.05000000000000004, a little above the double nearest 1/20, so a rate of
\* exactly 1/20 passes the test: e/t < (1 - 0.95) exactly when 20 e <= t
LowErrorRate(a) ==
    20 * a.error_count <= a.success_count + a.error_count

\* _adapt_if_needed (rate_limiter.py:261-290): the limiter it leaves behind
adapt_if_needed(a) ==
    IF a.success_count + a.error_count < a.sample_size THEN a
    ELSE LET new_max == IF HighErrorRate(a) THEN Reduced(a)
                        ELSE IF LowErrorRate(a) THEN Increased(a)
                        ELSE a.current_max IN
         [a EXCEPT !.current_max = new_max, !.success_count = 0, !.error_count = 0]

\* the places of `retired` in use, and the threads referring to an object
Slots == 1..NumThreads
Holders(ref) == {u \in Threads : held[u] = ref}

\* self._limiter = RateLimiter(self.current_max, self.time_window)
\* (rate_limiter.py:275, 284): the attribute is assigned a fresh limiter; the
\* object it replaces lives on for as long as a thread refers to it
store_new_limiter(current_max) ==
    /\ max_requests' = current_max
    /\ requests' = <<>>
    /\ inner' = InnerRef
    /\ IF Holders(InnerRef) = {}
       THEN UNCHANGED <<held, retired>>
       ELSE LET k == CHOOSE j \in Slots \ DOMAIN retired :
                         \A i \in Slots \ DOMAIN retired : j <= i
                old == [max_requests |-> max_requests, requests |-> requests] IN
            /\ retired' = [j \in DOMAIN retired \cup {k} |->
                               IF j = k THEN old ELSE retired[j]]
            /\ held' = [u \in Threads |-> IF held[u] = InnerRef THEN k ELSE held[u]]

\* _adapt_if_needed with its assignment of self._limiter (rate_limiter.py:261-290):
\* a fresh limiter is built only when current_max changed
Rebuild(a) ==
    /\ adaptive' = adapt_if_needed(a)
    /\ IF adaptive'.current_max # adaptive.current_max
       THEN store_new_limiter(adaptive'.current_max)
       ELSE UNCHANGED <<max_requests, requests, inner, held, retired>>
    /\ UNCHANGED time_window

\* record_success (rate_limiter.py:249-253)
record_success ==
    /\ Rebuild([adaptive EXCEPT !.success_count = @ + 1])
    /\ lastRecord' = [kind |-> "success", seq |-> Toggle(lastRecord.seq)]
    /\ UNCHANGED <<now, searchVars, dbVars, threadVars, alock, apc, call, wrapped, exportCall, moreVars>>

\* record_error (rate_limiter.py:255-259)
record_error ==
    /\ Rebuild([adaptive EXCEPT !.error_count = @ + 1])
    /\ lastRecord' = [kind |-> "error", seq |-> Toggle(lastRecord.seq)]
    /\ UNCHANGED <<now, searchVars, dbVars, threadVars, alock, apc, call, wrapped, exportCall, moreVars>>

InitialMaxima == (1..MaxInitial) \cup {DEFAULT_INITIAL_MAX}
SampleSizes == (1..MaxSampleSize) \cup {TEST_SAMPLE_SIZE, DEFAULT_SAMPLE_SIZE}

\* AdaptiveRateLimiter(initial_max_requests, time_window), sample_size
\* left at its default or set by the caller (tests/test_rate_limiter.py:164)
InitAdaptive ==
    /\ now = 0
    /\ \E n \in InitialMaxima, k \in SampleSizes :
          /\ adaptive = NewAdaptive(n, k)
          /\ max_requests = n
    /\ time_window \in 1..MaxWindow
    /\ requests = <<>>
    /\ InitSearchVars
    /\ InitDatabase
    /\ InitThreads
    /\ InitRest

NextAdaptive ==
    \/ record_success
    \/ record_error

SpecAdaptive == InitAdaptive /\ [][NextAdaptive]_vars

\* C6: whatever record_success / record_error calls were made,
\* min_requests <= current_max <= max_requests, with max_requests the
\* configured ceiling and min_requests = max(1, initial_max_requests // 10).
C6_CurrentMaxBounded ==
    /\ adaptive.min_requests <= adaptive.current_max
    /\ adaptive.current_max <= adaptive.max_requests
    /\ adaptive.min_requests = Max(1, adaptive.max_requests \div 10)

\* C6 witness: the limiter was cut down to its floor, or was raised again
\* after a cut and stopped by the ceiling.
C6_Witness ==
    /\ adaptive.max_requests = DEFAULT_INITIAL_MAX
    /\ adaptive.current_max = adaptive.min_requests
    /\ adaptive.success_count + adaptive.error_count > 0

\* ============================== adaptive_rate_limit, thread by thread
\* the RateLimiter a reference leads to
Deref(ref) ==
    IF ref = InnerRef THEN [max_requests |-> max_requests, requests |-> requests]
    ELSE retired[ref]

\* self._limiter = RateLimiter(...) (rate_limiter.py:275, 284) builds the new
\* object first and assigns the attribute after: while the object is being
\* built the attribute still refers to the limiter about to be replaced
LimiterDuringConstructionMut(ref) == NoRef
LimiterDuringConstruction(ref) == ref

\* if not limiter.is_allowed(): ... raise RateLimitExceeded (rate_limiter.py:311-315):
\* a denial is raised and nothing is recorded
OnDeniedMut == "record_error"
OnDenied == "raise"

\* self._success_count += 1 / self._error_count += 1 (rate_limiter.py:252, 258)
Counted(a, outcome) ==
    IF outcome = "returned" THEN [a EXCEPT !.success_count = @ + 1]
    ELSE [a EXCEPT !.error_count = @ + 1]

\* a thread calls the wrapped function (rate_limiter.py:309)
wrapper_call(t) ==
    /\ apc[t] = "idle"
    /\ apc' = [apc EXCEPT ![t] = "load"]
    /\ call' = [call EXCEPT ![t] = NoCall]
    /\ UNCHANGED <<now, limiterVars, searchVars, dbVars, threadVars, adaptiveVars,
                   inner, alock, held, retired, wrapped, exportCall, moreVars>>

\* AdaptiveRateLimiter.is_allowed evaluates self._limiter (rate_limiter.py:247)
load_limiter(t) ==
    /\ apc[t] = "load"
    /\ IF inner = NoRef
       THEN /\ apc' = [apc EXCEPT ![t] = "idle"]
            /\ call' = [call EXCEPT ![t].raised = "AttributeError"]
            /\ UNCHANGED held
       ELSE /\ held' = [held EXCEPT ![t] = inner]
            /\ apc' = [apc EXCEPT ![t] = "decide"]
            /\ UNCHANGED call
    /\ UNCHANGED <<now, limiterVars, searchVars, dbVars, threadVars, adaptiveVars,
                   inner, alock, retired, wrapped, exportCall, moreVars>>

\* ... and calls is_allowed on the object it got (rate_limiter.py:247, 34-57)
inner_is_allowed(t) ==
    /\ apc[t] = "decide"
    /\ LET ref == held[t]
           obj == Deref(ref)
           r == is_allowed(obj.requests, now, obj.max_requests, time_window) IN
       /\ IF ref = InnerRef
          THEN /\ requests' = r.reqs
               /\ UNCHANGED retired
          ELSE /\ retired' = IF Holders(ref) = {t}
                              THEN [j \in DOMAIN retired \ {ref} |-> retired[j]]
                              ELSE [retired EXCEPT ![ref].requests = r.reqs]
               /\ UNCHANGED requests
       /\ call' = [call EXCEPT ![t].admitted = r.ok,
                                ![t].decided_by = IF ref = InnerRef THEN "current" ELSE "replaced"]
       /\ apc' = [apc EXCEPT ![t] = IF r.ok THEN "execute" ELSE "denied"]
    /\ held' = [held EXCEPT ![t] = NoRef]
    /\ UNCHANGED <<now, max_requests, time_window, searchVars, dbVars, threadVars,
                   adaptiveVars, inner, alock, wrapped, exportCall, moreVars>>

\* wait_time = limiter._limiter.get_wait_time(); raise RateLimitExceeded
\* (rate_limiter.py:312-315)
raise_denied(t) ==
    /\ apc[t] = "denied"
    /\ apc' = [apc EXCEPT ![t] = "idle"]
    /\ IF inner = NoRef
       THEN /\ call' = [call EXCEPT ![t].raised = "AttributeError"]
            /\ UNCHANGED adaptive
       ELSE IF OnDenied = "raise"
       THEN /\ call' = [call EXCEPT ![t].raised = "RateLimitExceeded"]
            /\ UNCHANGED adaptive
       ELSE /\ call' = [call EXCEPT ![t].raised = "RateLimitExceeded", ![t].recorded = @ + 1]
            /\ adaptive' = Counted(adaptive, "raised")
    /\ UNCHANGED <<now, limiterVars, searchVars, dbVars, threadVars, lastRecord,
                   inner, alock, held, retired, wrapped, exportCall, moreVars>>

\* result = func(*args, **kwargs) (rate_limiter.py:319): it returns or raises
execute(t, outcome) ==
    /\ apc[t] = "execute"
    /\ apc' = [apc EXCEPT ![t] = "record"]
    /\ call' = [call EXCEPT ![t].executed = @ + 1, ![t].outcome = outcome]
    /\ UNCHANGED <<now, limiterVars, searchVars, dbVars, threadVars, adaptiveVars,
                   inner, alock, held, retired, wrapped, exportCall, moreVars>>

\* the value the wrapper ends with: return result, or the bare raise
\* (rate_limiter.py:321, 324)
Ended(c) == [c EXCEPT !.recorded = @ + 1,
                      !.raised = IF c.outcome = "raised" THEN "Exception" ELSE ""]

\* limiter.record_success() / limiter.record_error() (rate_limiter.py:320, 323)
\* up to self.current_max = new_max (rate_limiter.py:274, 283); without a new
\* limiter to build the call is over
record_outcome(t) ==
    /\ apc[t] = "record"
    /\ alock = 0
    /\ LET a == Counted(adaptive, call[t].outcome)
           after == adapt_if_needed(a) IN
       /\ lastRecord' = [kind |-> IF call[t].outcome = "returned" THEN "success" ELSE "error",
                         seq |-> Toggle(lastRecord.seq)]
       /\ IF after.current_max # a.current_max
          THEN /\ adaptive' = [a EXCEPT !.current_max = after.current_max]
               /\ alock' = t
               /\ inner' = LimiterDuringConstruction(inner)
               /\ apc' = [apc EXCEPT ![t] = "store"]
               /\ UNCHANGED call
          ELSE /\ adaptive' = after
               /\ apc' = [apc EXCEPT ![t] = "idle"]
               /\ call' = [call EXCEPT ![t] = Ended(@)]
               /\ UNCHANGED <<alock, inner>>
    /\ UNCHANGED <<now, limiterVars, searchVars, dbVars, threadVars, held, retired,
                   wrapped, exportCall, moreVars>>

\* the assignment of self._limiter, the counters' reset and the end of the
\* with self._lock block (rate_limiter.py:275, 284, 289-290)
store_limiter(t) ==
    /\ apc[t] = "store"
    /\ store_new_limiter(adaptive.current_max)
    /\ adaptive' = [adaptive EXCEPT !.success_count = 0, !.error_count = 0]
    /\ alock' = 0
    /\ apc' = [apc EXCEPT ![t] = "idle"]
    /\ call' = [call EXCEPT ![t] = Ended(@)]
    /\ UNCHANGED <<now, time_window, searchVars, dbVars, threadVars, lastRecord,
                   wrapped, exportCall, moreVars>>

\* limiter = AdaptiveRateLimiter(initial_max_requests, time_window) with its
\* sample_size set, shared by the threads calling the wrapped function
InitCalls ==
    /\ now = 0
    /\ \E n \in 1..MaxCallInitial, k \in 1..MaxCallSample :
          /\ adaptive = NewAdaptive(n, k)
          /\ max_requests = n
    /\ time_window = DEFAULT_TIME_WINDOW
    /\ requests = <<>>
    /\ InitSearchVars
    /\ InitDatabase
    /\ InitThreads
    /\ InitRest

NextCalls ==
    \/ \E t \in Threads : wrapper_call(t)
    \/ \E t \in Threads : load_limiter(t)
    \/ \E t \in Threads : inner_is_allowed(t)
    \/ \E t \in Threads : raise_denied(t)
    \/ \E t \in Threads, outcome \in {"returned", "raised"} : execute(t, outcome)
    \/ \E t \in Threads : record_outcome(t)
    \/ \E t \in Threads : store_limiter(t)

SpecCalls == InitCalls /\ [][NextCalls]_vars

\* ===================================== rate_limit(limiter_key, wait=False)
\* if not limiter.is_allowed(): ... raise RateLimitExceeded (rate_limiter.py:197-202)
OnRateLimitedMut == "call"
OnRateLimited == "raise"

\* one call of a function wrapped by rate_limit(key, wait=False)
\* (rate_limiter.py:186-204); the RateLimiter of the variables is the one
\* _api_rate_limiters holds for the key; the function returns or raises
rate_limited_call(outcome) ==
    /\ LET r == is_allowed(requests, now, max_requests, time_window) IN
       /\ requests' = r.reqs
       /\ IF ~r.ok /\ OnRateLimited = "raise"
          THEN wrapped' = [admitted |-> FALSE, executed |-> 0, outcome |-> "",
                           raised |-> "RateLimitExceeded",
                           wait_time |-> get_wait_time(r.reqs, now, max_requests, time_window),
                           seq |-> Toggle(wrapped.seq)]
          ELSE wrapped' = [admitted |-> r.ok, executed |-> 1, outcome |-> outcome,
                           raised |-> IF outcome = "raised" THEN "Exception" ELSE "",
                           wait_time |-> 0,
                           seq |-> Toggle(wrapped.seq)]
    /\ UNCHANGED <<now, max_requests, time_window, searchVars, dbVars, threadVars,
                   adaptiveVars, inner, alock, held, retired, apc, call, exportCall, moreVars>>

NextDecorator ==
    \/ \E outcome \in {"returned", "raised"} : rate_limited_call(outcome)
    \/ Tick(MaxTime)

SpecDecorator == InitLimiter /\ [][NextDecorator]_vars

\* the timestamps of a deque that lie in the window ending at t
InWindow(reqs, t, win) == {i \in DOMAIN reqs : reqs[i] >= t - win}

\* C18: a call of a function wrapped by rate_limit(key, wait=False) runs the
\* function exactly once when the key's limiter has room in its window, and
\* otherwise ends in RateLimitExceeded, which no failure of the function
\* itself produces, with the function not run at all.
C18_DecoratorDenial ==
    [][wrapped'.seq # wrapped.seq =>
          IF Cardinality(InWindow(requests, now, time_window)) < max_requests
          THEN /\ wrapped'.executed = 1
               /\ wrapped'.raised \in {"", "Exception"}
               /\ Len(requests') = Cardinality(InWindow(requests, now, time_window)) + 1
          ELSE /\ wrapped'.executed = 0
               /\ wrapped'.raised = "RateLimitExceeded"
               /\ Len(requests') = max_requests]_vars

\* C18 witness: a call was refused with a positive wait time after the
\* calls before it had filled the window.
C18_Witness ==
    /\ wrapped.raised = "RateLimitExceeded"
    /\ wrapped.executed = 0
    /\ wrapped.wait_time > 0
    /\ Len(requests) = max_requests
    /\ now > 0

\* C15: when the record_success / record_error call that completes a sample
\* sees more than 3 errors in every 10 outcomes, current_max becomes
\* max(min_requests, current_max // 2) and both counters are zero afterwards.
C15_ReductionOnErrors ==
    [][lastRecord'.seq # lastRecord.seq =>
          LET s == adaptive.success_count + (IF lastRecord'.kind = "success" THEN 1 ELSE 0)
              e == adaptive.error_count + (IF lastRecord'.kind = "error" THEN 1 ELSE 0) IN
          (s + e >= adaptive.sample_size /\ 10 * e > 3 * (s + e)) =>
              /\ adaptive'.current_max =
                     Max(adaptive.min_requests, adaptive.current_max \div 2)
              /\ adaptive'.success_count = 0
              /\ adaptive'.error_count = 0]_vars

\* C15 witness: a limiter built with initial_max_requests = 100 and given
\* sample_size 10 stands at current_max = 50 right after a recorded success
\* completed a sample.
C15_Witness ==
    /\ adaptive.max_requests = DEFAULT_INITIAL_MAX
    /\ adaptive.sample_size = TEST_SAMPLE_SIZE
    /\ adaptive.current_max = 50
    /\ adaptive.success_count = 0 /\ adaptive.error_count = 0
    /\ lastRecord.kind = "success"
    /\ max_requests = 50 /\ requests = <<>>

\* C16: a call through adaptive_rate_limit that the limiter denies ends in
\* RateLimitExceeded with the wrapped function not executed and neither
\* counter changed; an admitted call executes the function once and records
\* exactly one outcome, a success when it returned and an error when it raised.
C16_DenialsNotCounted ==
    [][\A t \in Threads :
          /\ (apc[t] \in {"decide", "denied"} /\ apc'[t] \in {"denied", "idle"}
                  /\ apc'[t] # apc[t]) =>
                 /\ adaptive'.success_count = adaptive.success_count
                 /\ adaptive'.error_count = adaptive.error_count
                 /\ call'[t].executed = 0 /\ call'[t].recorded = 0
                 /\ apc'[t] = "idle" => call'[t].raised = "RateLimitExceeded"
          /\ (apc[t] = "record" /\ apc'[t] # "record") =>
                 /\ lastRecord'.seq # lastRecord.seq
                 /\ lastRecord'.kind = IF call[t].outcome = "returned" THEN "success" ELSE "error"
          /\ (apc[t] \in {"record", "store"} /\ apc'[t] = "idle") =>
                 /\ call'[t].admitted
                 /\ call'[t].executed = 1 /\ call'[t].recorded = 1
                 /\ call'[t].raised = IF call[t].outcome = "returned" THEN "" ELSE "Exception"]_vars

\* C16 witness: one thread's call has ended in a denial while another
\* thread's admitted call has recorded its outcome.
C16_Witness ==
    \E t \in Threads, u \in Threads :
        /\ apc[t] = "idle" /\ call[t].raised = "RateLimitExceeded" /\ call[t].executed = 0
        /\ apc[u] = "idle" /\ call[u].admitted /\ call[u].recorded = 1
        /\ lastRecord.kind # "none"

\* C17: every is_allowed call on the AdaptiveRateLimiter gets a RateLimiter
\* to ask, the one self._limiter referred to when the call read it, and is
\* decided by that one object (still the current one, or by then replaced);
\* no call finds no limiter, whatever a concurrent record_success /
\* record_error is rebuilding.
C17_DecidedByOldOrNew ==
    \A t \in Threads :
        /\ call[t].raised # "AttributeError"
        /\ apc[t] = "decide" => held[t] = InnerRef \/ held[t] \in DOMAIN retired
        /\ apc[t] \in {"denied", "execute", "record", "store"} =>
               call[t].decided_by \in {"current", "replaced"}

\* C17 witness: a call was decided by a limiter that another thread's
\* record call had replaced between the read of self._limiter and the decision.
C17_Witness ==
    \E t \in Threads :
        /\ apc[t] \in {"denied", "execute"}
        /\ call[t].decided_by = "replaced"
        /\ max_requests # adaptive.max_requests


\* =========================================== search: what the caller gets
\* self.finished.emit(results) (main.py:62): the list is all the signal
\* carries; display_search_results receives nothing else
Emitted == [signal |-> pc, results |-> results]

\* every backend that was queried raised
AllQueriedFailed == \A b \in Queried : returned[b].status = "raised"

\* every backend that was queried answered, and answered with no records
AllQueriedEmpty == \A b \in Queried : returned[b].status = "ok" /\ returned[b].n = 0

\* C21 (as claimed): what a finished search hands to its caller tells a
\* search in which every queried backend failed apart from one in which the
\* queried backends answered and had no match, whose outcome is the finished
\* signal with the empty list.
C21_OutcomeTellsFailure ==
    (pc = "finished" /\ AllQueriedFailed) =>
        Emitted # [signal |-> "finished", results |-> <<>>]

\* the outcome C21 compares with: a search whose backends all answered
\* with no records ends in the finished signal carrying the empty list
C21_EmptySuccess ==
    (pc = "finished" /\ AllQueriedEmpty) =>
        Emitted = [signal |-> "finished", results |-> <<>>]

\* C24 (as claimed): the emitted list holds at most MAX_PER_SOURCE records of
\* any one backend, also when a backend returned more than it was asked for.
C24_PerSourceCap ==
    pc = "finished" => \A b \in BackendNames : CountOf(b) <= MAX_PER_SOURCE


\* ===================================== AdaptiveRateLimiter: other samples
\* the counters as _adapt_if_needed sees them in the record call just made
SeenSuccesses == adaptive.success_count + (IF lastRecord'.kind = "success" THEN 1 ELSE 0)
SeenErrors == adaptive.error_count + (IF lastRecord'.kind = "error" THEN 1 ELSE 0)
Recorded == lastRecord'.seq # lastRecord.seq
CompletesSample == SeenSuccesses + SeenErrors >= adaptive.sample_size
LimiterKept == adaptive'.current_max = adaptive.current_max
                   /\ max_requests' = max_requests /\ requests' = requests

\* C22 (as claimed): a record_success / record_error call that does not
\* complete a sample leaves current_max and the inner limiter alone; so does
\* a call completing a sample whose error rate is neither above 0.3 nor
\* below 0.05, and that call leaves both counters at zero.
C22_DeadZoneFrame ==
    [][Recorded =>
          /\ ~CompletesSample => LimiterKept
          /\ (/\ CompletesSample
              /\ 10 * SeenErrors <= 3 * (SeenSuccesses + SeenErrors)
              /\ 20 * SeenErrors >= SeenSuccesses + SeenErrors) =>
                 /\ LimiterKept
                 /\ adaptive'.success_count = 0 /\ adaptive'.error_count = 0]_vars

\* C23: a record call completing a sample with fewer than 1 error in 20
\* outcomes sets current_max to min(max_requests, floor(current_max * 1.5));
\* when that changes current_max, the inner limiter is a fresh one of that
\* capacity.
C23_IncreaseOnSuccess ==
    [][(Recorded /\ CompletesSample /\ 20 * SeenErrors < SeenSuccesses + SeenErrors) =>
          /\ adaptive'.current_max =
                 Min(adaptive.max_requests, (3 * adaptive.current_max) \div 2)
          /\ adaptive'.current_max # adaptive.current_max =>
                 max_requests' = adaptive'.current_max /\ requests' = <<>>]_vars

\* C23 witness: a limiter built with initial_max_requests = 100, cut to 25,
\* stands at 37 = floor(25 * 1.5) right after a recorded success completed a
\* sample, with a fresh inner limiter of capacity 37.
C23_Witness ==
    /\ adaptive.max_requests = DEFAULT_INITIAL_MAX
    /\ adaptive.current_max = 37
    /\ adaptive.success_count = 0 /\ adaptive.error_count = 0
    /\ lastRecord.kind = "success"
    /\ max_requests = 37 /\ requests = <<>>


\* ================================= RateLimiter called directly, with keys
\* is_allowed(key) (rate_limiter.py:34-57), one whole call: `key` is
\* accepted and not used, every key shares the one deque self._requests
is_allowed_key(key) ==
    /\ LET r == is_allowed(requests, now, max_requests, time_window) IN
       /\ requests' = r.reqs
       /\ keyCall' = [key |-> key, ok |-> r.ok, seq |-> Toggle(keyCall.seq)]
       /\ admittedKey' = IF r.ok THEN [admittedKey EXCEPT ![key] = Append(@, now)]
                         ELSE admittedKey
    /\ waitCall' = [waitCall EXCEPT !.untouched = FALSE]
    /\ UNCHANGED <<now, max_requests, time_window, searchVars, dbVars, threadVars,
                   adaptiveVars, wrapperVars, exportCall, waitVars, batchCall>>

\* get_wait_time(key) (rate_limiter.py:76-95), one whole call; it reads the
\* deque and changes nothing
call_get_wait_time ==
    /\ waitCall' = [t |-> now,
                    w |-> get_wait_time(requests, now, max_requests, time_window),
                    untouched |-> TRUE,
                    seq |-> Toggle(waitCall.seq)]
    /\ UNCHANGED <<now, limiterVars, searchVars, dbVars, threadVars, adaptiveVars,
                   wrapperVars, exportCall, keyCall, admittedKey, waitVars, batchCall>>

NextDirect ==
    \/ \E key \in Keys : is_allowed_key(key)
    \/ call_get_wait_time
    \/ Tick(MaxTime)

SpecDirect == InitLimiter /\ [][NextDirect]_vars

\* C25 (as claimed): the limiter counts each key's admissions apart, so a
\* call under one key is denied only when max_requests calls under that same
\* key were admitted within the window; calls under other keys take nothing
\* from it.
C25_KeysIndependent ==
    [][(keyCall'.seq # keyCall.seq /\ ~keyCall'.ok) =>
          Cardinality(InWindow(admittedKey[keyCall'.key], now, time_window))
              >= max_requests]_vars

\* C30 (as claimed): when get_wait_time answered w at time t and no call
\* touched the limiter since, an is_allowed call at time t + w is admitted;
\* and get_wait_time answers 0 only when an is_allowed call at that instant
\* would be admitted.
C30_WaitTimeSuffices ==
    [][/\ (keyCall'.seq # keyCall.seq /\ waitCall.untouched
           /\ now = waitCall.t + waitCall.w) => keyCall'.ok
       /\ (waitCall'.seq # waitCall.seq /\ waitCall'.w = 0) =>
              is_allowed(requests, now, max_requests, time_window).ok]_vars


\* =================================================== update_preferences
BatchKeys == {"repo_apt_enabled", "log_retention_days", "malicious_key"}

\* the dicts a caller passes, as their (key, value) items in dict order
RECURSIVE ItemLists(_)
ItemLists(n) ==
    IF n = 0 THEN {<<>>}
    ELSE LET shorter == ItemLists(n - 1) IN
         shorter \cup {Append(items, [key |-> k, value |-> v]) :
                           items \in {s \in shorter : Len(s) = n - 1},
                           k \in BatchKeys, v \in PrefValues}
Batches ==
    {items \in ItemLists(MaxBatch) :
        /\ items # <<>>
        /\ \A i \in DOMAIN items, j \in DOMAIN items : items[i].key = items[j].key => i = j}

\* for key, value in prefs.items(): self.update_preference(key, value)
\* (database.py:244-245): each update_preference executes and commits its
\* UPDATE before the next key is looked at (database.py:239-240); the first
\* key outside the whitelist raises and ends the loop
RECURSIVE update_each(_, _)
update_each(rows, items) ==
    IF items = <<>> THEN [rows |-> rows, raised |-> ""]
    ELSE IF ~KeyAllowed(Head(items).key) THEN [rows |-> rows, raised |-> "ValueError"]
    ELSE update_each(execute_update(rows, Head(items).key, Head(items).value), Tail(items))

\* update_preferences (database.py:242-245)
update_preferences(items) ==
    /\ LET r == update_each(user_prefs, items) IN
       /\ user_prefs' = r.rows
       /\ batchCall' = [items |-> items, raised |-> r.raised, seq |-> Toggle(batchCall.seq)]
    /\ UNCHANGED <<now, limiterVars, searchVars, appVars, tables, prefCall, getCall,
                   threadVars, adaptiveVars, wrapperVars, exportCall, directVars, waitVars>>

NextBatch == \E items \in Batches : update_preferences(items)

SpecBatch == InitPrefs /\ [][NextBatch]_vars

\* C29 (as claimed): update_preferences given a mapping with a key outside
\* the whitelist raises the validation error and leaves every stored
\* preference as it was, the whitelisted keys ahead of the invalid one
\* included.
C29_AllOrNothing ==
    [][(/\ batchCall'.seq # batchCall.seq
        /\ \E i \in DOMAIN batchCall'.items :
               batchCall'.items[i].key \notin ALLOWED_PREFERENCE_KEYS) =>
          /\ batchCall'.raised = "ValueError"
          /\ user_prefs' = user_prefs]_vars


\* ================== AdaptiveRateLimiter: admissions while the limit adapts
\* AdaptiveRateLimiter.is_allowed (rate_limiter.py:245-247), one whole call
\* by one caller: it hands the question to the limiter self._limiter refers
\* to at that moment
adaptive_is_allowed ==
    /\ admittedAt[now] < MaxAdmitted
    /\ LET r == is_allowed(requests, now, max_requests, time_window) IN
       /\ requests' = r.reqs
       /\ admittedAt' = IF r.ok THEN [admittedAt EXCEPT ![now] = @ + 1] ELSE admittedAt
       /\ keyCall' = [key |-> "default", ok |-> r.ok, seq |-> Toggle(keyCall.seq)]
    /\ UNCHANGED <<now, max_requests, time_window, searchVars, dbVars, lock, tpc, tnow,
                   adaptiveVars, wrapperVars, exportCall, admittedKey, waitCall, waitVars,
                   batchCall>>

\* AdaptiveRateLimiter(initial_max_requests, time_window) with sample_size
\* set by the caller (tests/test_rate_limiter.py:164)
InitThrottle ==
    /\ now = 0
    /\ \E n \in 1..MaxCallInitial, k \in 1..MaxCallSample :
          /\ adaptive = NewAdaptive(n, k)
          /\ max_requests = n
    /\ time_window \in 1..MaxWindow
    /\ requests = <<>>
    /\ InitSearchVars
    /\ InitDatabase
    /\ InitThreads
    /\ InitRest

NextThrottle ==
    \/ adaptive_is_allowed
    \/ record_success
    \/ record_error
    \/ Tick(MaxTime)

SpecThrottle == InitThrottle /\ [][NextThrottle]_vars

\* the admissions whose timestamp lies in the trailing interval (t - window, t]
AdmittedInside(t) == SumOver(admittedAt, {u \in 0..MaxTime : t - time_window < u /\ u <= t})

\* C27 (as claimed): whatever is_allowed, record_success and record_error
\* calls were made on an AdaptiveRateLimiter, no trailing interval of length
\* time_window holds more admissions than max_requests, the configured
\* ceiling.
C27_CeilingPerWindow ==
    \A t \in 0..MaxTime : AdmittedInside(t) <= adaptive.max_requests


\* ======================= AdaptiveRateLimiter: recovery under success only
\* the caller goes on reporting outcomes: record_success is called again and
\* again, whatever record_error calls come in between
SpecRecover == InitAdaptive /\ [][NextAdaptive]_vars /\ WF_vars(record_success)

\* C28 (as claimed): from any state the limiter can be in, once every
\* further outcome recorded is a success, current_max comes back to
\* max_requests, the configured ceiling, and stays there.
C28_RecoversUnderSuccess ==
    <>[](lastRecord.kind = "success") => <>[](adaptive.current_max = adaptive.max_requests)


\* ================================================ wait_if_needed, threads
\* Time for the waiting threads is measured from the present: `now` stays
\* where it is and a unit of time going by makes every recorded timestamp
\* one unit older. A timestamp already older than the window is kept at
\* time_window + 1 units old: is_allowed purges it at any later time alike.
Elapsed(reqs) == [i \in DOMAIN reqs |-> Max(reqs[i] - 1, now - time_window - 1)]

\* time.time() moves on
Elapse ==
    /\ requests' = Elapsed(requests)
    /\ UNCHANGED <<now, max_requests, time_window, searchVars, dbVars, threadVars,
                   adaptiveVars, wrapperVars, exportCall, directVars, waitVars, batchCall>>

\* a thread calls wait_if_needed: start = time.time() (rate_limiter.py:69)
wait_if_needed_call(t) ==
    /\ waiters[t].pc = "idle"
    /\ waiters' = [waiters EXCEPT ![t] = [@ EXCEPT !.pc = "polling", !.denied = FALSE]]
    /\ started' = Toggle(started)
    /\ UNCHANGED <<now, limiterVars, searchVars, dbVars, threadVars, adaptiveVars,
                   wrapperVars, exportCall, directVars, polled, batchCall>>

\* one evaluation of `while not self.is_allowed(key)` (rate_limiter.py:71-74):
\* admitted, the loop ends and the call returns; denied, the thread sleeps
\* 100 ms and asks again
poll(t) ==
    /\ waiters[t].pc = "polling"
    /\ LET r == is_allowed(requests, now, max_requests, time_window) IN
       /\ requests' = r.reqs
       /\ waiters' = [waiters EXCEPT ![t] =
                          [pc |-> IF r.ok THEN "idle" ELSE "polling",
                           denied |-> @.denied \/ ~r.ok]]
    /\ polled' = Toggle(polled)
    /\ UNCHANGED <<now, max_requests, time_window, searchVars, dbVars, threadVars,
                   adaptiveVars, wrapperVars, exportCall, directVars, started, batchCall>>

NextWait ==
    \/ \E t \in Threads : wait_if_needed_call(t)
    \/ \E t \in Threads : poll(t)
    \/ Elapse

\* time keeps advancing, and a thread inside wait_if_needed keeps polling:
\* its loop has no other exit (rate_limiter.py:71-72)
SpecWait ==
    /\ InitLimiter
    /\ [][NextWait]_vars
    /\ WF_vars(Elapse)
    /\ \A t \in Threads : WF_vars(poll(t))

\* a poll that ends a call appended exactly one timestamp, the caller's
\* admission; a poll that does not end it appended none
OneAdmissionPerReturn ==
    [][polled' # polled =>
          IF \E t \in Threads : waiters[t].pc = "polling" /\ waiters'[t].pc = "idle"
          THEN requests' = Append(Purge(requests, now - time_window), now)
          ELSE requests' = Purge(requests, now - time_window)]_vars

====
